---- MODULE Spec2Model ----
(***************************************************************************)
(* Model of the OcleanX Bluetooth parser/poller                            *)
(* (homeassistant/components/ocleanx/package/parser.py).                   *)
(*                                                                         *)
(* The poll side (async_poll, _get_payload) is a process per poll call,    *)
(* one step per await.  Every await may complete, raise, never complete,   *)
(* or be interrupted by a cancellation of the task.                        *)
(***************************************************************************)
EXTENDS Integers, Sequences, FiniteSets, TLC

\* ---- bounds ----
MaxServices == 2
MaxChars == 2
MaxCancels == 2
MaxPayloadLen == 5
MaxTime == 3
MaxLastPoll == 4
MaxValue == 2

\* ---- constants of the program ----
OCLEANX_MANUFACTURER == 10147
OtherManufacturer == 76
BRUSHING_UPDATE_INTERVAL_SECONDS == 1
NOT_BRUSHING_UPDATE_INTERVAL_SECONDS == 3
TIMEOUT_RECENTLY_BRUSHING == 2
BAD_REQUEST == 400

\* ---- values ----
None == "None"          \* None where the other values are strings
Nothing == <<>>          \* None where the other values are not strings
Some(v) == <<v>>         \* a value that is not None
BatteryUuid == "battery_level"
OtherUuid == "other"
CharUuids == {BatteryUuid, OtherUuid}
BatteryBytes == {0, 77, 100}
BATTERY_PERCENT == "battery_percent"

\* exceptions an awaited transport call can raise by itself
TransportFaults == {"BleakError", "OtherError"}
CancelledError == "CancelledError"

\* the polls of one parser object
Polls == {"p1"}

\* two async_poll calls for the same device whose awaits interleave
ConcurrentPolls == {"p1", "p2"}

\* advertisements: an address and a mapping manufacturer id -> payload
Bytes == {0}
Payloads == UNION {[1..n -> Bytes] : n \in 0..MaxPayloadLen}
ManufacturerIds == {OCLEANX_MANUFACTURER, OtherManufacturer}
ManufacturerDatas == UNION {[D -> Payloads] : D \in SUBSET ManufacturerIds}
Addresses == {<<"AA", "BB", "CC", "11", "22", "33">>, <<"AA", "BB", "CC", "44", "55", "66">>}
Advertisements == [address : Addresses, manufacturer_data : ManufacturerDatas]

VARIABLES
    pc,            \* pc[p]: the await the poll p is suspended at
    services,      \* services[p]: client.services of the connected client
    si,            \* si[p]: index of the service of the enumeration
    ci,            \* ci[p]: index of the characteristic within that service
    fault,         \* fault[p]: exception in flight while the finally block runs
    hung,          \* hung[p]: the awaited operation never completes
    result,        \* result[p]: how async_poll ended
    ops,           \* ops[p]: transport operations issued on the client, in order
    naReads,       \* naReads[p]: characteristics whose read was logged "NA"
    batteryRead,   \* batteryRead[p]: last byte returned by the battery attribute
    raisedBy,      \* raisedBy[p]: exception that left _get_payload, if any
    cancels,       \* cancels[p]: cancellations delivered to the task
    client,        \* client[p]: the transport connection of the poll
    faults,        \* faults[p]: kinds of exception the awaits of p have raised
    cancelledAt,   \* cancelledAt[p]: the await the last cancellation struck
    sensorValues,  \* values recorded by update_sensor since the last update
    manufacturer,  \* device manufacturer (set_device_manufacturer)
    device_type,   \* device type (set_device_type)
    name,          \* device name (set_device_name)
    title,         \* title (set_title)
    brushing,      \* self._brushing
    last_brush,    \* self._last_brush
    now,           \* time.monotonic()
    adv,           \* the advertisement of the last _start_update call
    before,        \* the device state that call started from
    pollArg,       \* last_poll of the last poll_needed call
    pollAt,        \* time.monotonic() at that call
    pollResult,    \* what that call returned
    setup,         \* how async_setup_platform of the REST number ended
    setupOutcome,  \* what the state request of the setup met
    registered,    \* the number was handed to async_add_entities
    value_template,\* the configuration has a value_template
    native_value,  \* RestNumber._attr_native_value
    ha_state,      \* the state async_write_ha_state wrote last
    device_value,  \* the value the REST device holds
    lastOp         \* the last operation on the number and what its request met

pollvars == <<pc, services, si, ci, fault, hung, result, ops, naReads,
              batteryRead, raisedBy, cancels, client, faults, cancelledAt,
              sensorValues>>
devvars == <<manufacturer, device_type, name, title, brushing, last_brush>>
advvars == <<manufacturer, device_type, name, title, brushing, last_brush,
             now, adv, before, pollArg, pollAt, pollResult>>
vars == <<pc, services, si, ci, fault, hung, result, ops, naReads,
          batteryRead, raisedBy, cancels, client, faults, cancelledAt,
          sensorValues,
          manufacturer, device_type, name, title, brushing, last_brush,
          now, adv, before, pollArg, pollAt, pollResult,
          setup, setupOutcome, registered, value_template, native_value,
          ha_state, device_value, lastOp>>
restvars == <<setup, setupOutcome, registered, value_template, native_value,
              ha_state, device_value, lastOp>>

\* ---- helpers ----
SeqsUpTo(S, n) == UNION {[1..k -> S] : k \in 0..n}
BatteryChars(svcs) ==
    {<<s, c>> \in (1..Len(svcs)) \X (1..MaxChars + 1) :
        c <= Len(svcs[s]) /\ svcs[s][c] = BatteryUuid}

\* the GATT tables a device can expose: services, each a sequence of
\* characteristics, the battery-level characteristic at most once
ServiceLayouts ==
    {svcs \in SeqsUpTo(SeqsUpTo(CharUuids, MaxChars), MaxServices) :
        Cardinality(BatteryChars(svcs)) <= 1}

NoResult == [kind |-> "none", exc |-> None, record |-> Nothing]

\* first position (service, characteristic) at or after service s that has
\* a characteristic; <<0, 0>> when the enumeration is exhausted
RECURSIVE FirstCharFrom(_, _)
FirstCharFrom(svcs, s) ==
    IF s > Len(svcs) THEN <<0, 0>>
    ELSE IF Len(svcs[s]) > 0 THEN <<s, 1>>
    ELSE FirstCharFrom(svcs, s + 1)

\* the position the nested for loops visit after (s, c)
NextChar(svcs, s, c) ==
    IF c < Len(svcs[s]) THEN <<s, c + 1>> ELSE FirstCharFrom(svcs, s + 1)

AllChars(svcs) == {<<s, c>> \in (1..Len(svcs)) \X (1..MaxChars + 1) : c <= Len(svcs[s])}

\* faulty variant: except Exception: every fault but a cancellation is handled
CaughtException(e) == e \in {"BleakError", "OtherError"}

\* faulty variant: no except clause: nothing is handled
CaughtNothing(e) == FALSE

\* except BleakError as err: only this kind is handled
Caught(e) == e = "BleakError"

\* faulty variant: "except BleakError:" around the diagnostic read
DiagCaughtBleakOnly(e) == e = "BleakError"

\* the bare "except:" around the diagnostic read handles every exception
DiagCaught(e) == TRUE

\* faulty variant: the disconnect placed after the try statement instead of in a
\* finally block: it runs only when nothing propagates
FinallyOnlyWhenHandled(e) == e = None \/ e = "BleakError"

\* try ... finally: the finally block runs whatever left the try block
FinallyRuns(e) == TRUE

\* the record _finish_update builds from the recorded values
finish_update == [sensorValues |-> sensorValues]

Issue(p, op, at) == ops' = [ops EXCEPT ![p] = Append(@, [op |-> op, at |-> at])]

\* an await of p raised e
Raised(p, e) == faults' = [faults EXCEPT ![p] = @ \cup {e}]

Raise(p, e) ==
    /\ pc' = [pc EXCEPT ![p] = "done"]
    /\ result' = [result EXCEPT ![p] = [kind |-> "raised", exc |-> e, record |-> Nothing]]

\* ---- advertisements and the poll decision ----

DeviceState == [manufacturer |-> manufacturer, device_type |-> device_type,
                name |-> name, title |-> title,
                brushing |-> brushing, last_brush |-> last_brush]

\* bluetooth_data_tools.short_address: the last two octets of the address
short_address(address) == address[5] \o address[6]

\* faulty variant: the manufacturer is set before the manufacturer id is looked up
start_update_tag_first(data) ==
    /\ adv' = Some(data)
    /\ before' = Some(DeviceState)
    /\ manufacturer' = "OcleanX"
    /\ IF \/ OCLEANX_MANUFACTURER \notin DOMAIN data.manufacturer_data
          \/ Len(data.manufacturer_data[OCLEANX_MANUFACTURER]) # 4
       THEN UNCHANGED <<device_type, name, title>>
       ELSE /\ device_type' = "Oclean X"
            /\ name' = "Oclean X " \o short_address(data.address)
            /\ title' = "Oclean X " \o short_address(data.address)
    /\ UNCHANGED <<brushing, last_brush, now, pollArg, pollAt, pollResult>>
    /\ UNCHANGED pollvars
    /\ UNCHANGED restvars

\* faulty variant: the length check rejects short payloads only
start_update_short_only(data) ==
    /\ adv' = Some(data)
    /\ before' = Some(DeviceState)
    /\ IF OCLEANX_MANUFACTURER \notin DOMAIN data.manufacturer_data
       THEN UNCHANGED <<manufacturer, device_type, name, title>>
       ELSE /\ manufacturer' = "OcleanX"
            /\ IF Len(data.manufacturer_data[OCLEANX_MANUFACTURER]) < 4
               THEN UNCHANGED <<device_type, name, title>>
               ELSE /\ device_type' = "Oclean X"
                    /\ name' = "Oclean X " \o short_address(data.address)
                    /\ title' = "Oclean X " \o short_address(data.address)
    /\ UNCHANGED <<brushing, last_brush, now, pollArg, pollAt, pollResult>>
    /\ UNCHANGED pollvars
    /\ UNCHANGED restvars

start_update(data) ==
    /\ adv' = Some(data)
    /\ before' = Some(DeviceState)
    /\ IF OCLEANX_MANUFACTURER \notin DOMAIN data.manufacturer_data
       THEN UNCHANGED <<manufacturer, device_type, name, title>>
       ELSE /\ manufacturer' = "OcleanX"
            /\ IF Len(data.manufacturer_data[OCLEANX_MANUFACTURER]) # 4
               THEN UNCHANGED <<device_type, name, title>>
               ELSE /\ device_type' = "Oclean X"
                    /\ name' = "Oclean X " \o short_address(data.address)
                    /\ title' = "Oclean X " \o short_address(data.address)
    /\ UNCHANGED <<brushing, last_brush, now, pollArg, pollAt, pollResult>>
    /\ UNCHANGED pollvars
    /\ UNCHANGED restvars

\* faulty variant: the comparison with the interval is not strict
poll_needed_not_strict(last_poll) ==
    IF last_poll = Nothing THEN TRUE
    ELSE LET update_interval ==
                 IF brushing \/ now - last_brush <= TIMEOUT_RECENTLY_BRUSHING
                 THEN BRUSHING_UPDATE_INTERVAL_SECONDS
                 ELSE NOT_BRUSHING_UPDATE_INTERVAL_SECONDS
         IN last_poll[1] >= update_interval

poll_needed(last_poll) ==
    IF last_poll = Nothing THEN TRUE
    ELSE LET update_interval ==
                 IF brushing \/ now - last_brush <= TIMEOUT_RECENTLY_BRUSHING
                 THEN BRUSHING_UPDATE_INTERVAL_SECONDS
                 ELSE NOT_BRUSHING_UPDATE_INTERVAL_SECONDS
         IN last_poll[1] > update_interval

PollNeeded(last_poll) ==
    /\ pollArg' = last_poll
    /\ pollAt' = now
    /\ pollResult' = Some(poll_needed(last_poll))
    /\ UNCHANGED <<manufacturer, device_type, name, title, brushing, last_brush,
                   now, adv, before>>
    /\ UNCHANGED pollvars
    /\ UNCHANGED restvars

\* the monotonic clock advances
Tick ==
    /\ now < MaxTime
    /\ now' = now + 1
    /\ UNCHANGED <<manufacturer, device_type, name, title, brushing, last_brush,
                   adv, before, pollArg, pollAt, pollResult>>
    /\ UNCHANGED pollvars
    /\ UNCHANGED restvars

\* ---- _get_payload and the try statement of async_poll ----

\* what left _get_payload (None: it returned) meets except/finally
ExitPayload(p, e) ==
    /\ raisedBy' = [raisedBy EXCEPT ![p] = e]
    /\ IF FinallyRuns(e)
       THEN /\ fault' = [fault EXCEPT ![p] = IF e = None \/ Caught(e) THEN None ELSE e]
            /\ pc' = [pc EXCEPT ![p] = "disconnect"]
            /\ Issue(p, "disconnect", <<>>)
            /\ UNCHANGED result
       ELSE /\ Raise(p, e)
            /\ UNCHANGED <<fault, ops>>
    /\ UNCHANGED <<si, ci>>

\* control reaches position pos of the enumeration, or the steps after it
EnterChar(p, svcs, pos) ==
    IF pos = <<0, 0>>
    THEN /\ pc' = [pc EXCEPT ![p] = "start_notify"]
         /\ Issue(p, "start_notify", <<23>>)
         /\ UNCHANGED <<si, ci>>
    ELSE /\ pc' = [pc EXCEPT ![p] = "read_gatt_char"]
         /\ si' = [si EXCEPT ![p] = pos[1]]
         /\ ci' = [ci EXCEPT ![p] = pos[2]]
         /\ Issue(p, "read_gatt_char", pos)

\* the awaited read raised e
ReadRaised(p, e) ==
    /\ Raised(p, e)
    /\ UNCHANGED <<services, batteryRead, client, sensorValues>>
    /\ IF DiagCaught(e)
       THEN /\ naReads' = [naReads EXCEPT ![p] = @ \cup {<<si[p], ci[p]>>}]
            /\ EnterChar(p, services[p], NextChar(services[p], si[p], ci[p]))
            /\ UNCHANGED <<fault, result, raisedBy>>
       ELSE /\ ExitPayload(p, e)
            /\ UNCHANGED naReads

\* faulty variant: start_notify wrapped in an except clause of its own, so
\* that the command is written although the subscription failed
StepRaisedNotifyOptional(p, e) ==
    /\ Raised(p, e)
    /\ IF pc[p] = "start_notify"
       THEN /\ pc' = [pc EXCEPT ![p] = "write_gatt_char"]
            /\ Issue(p, "write_gatt_char", <<21>>)
            /\ UNCHANGED <<si, ci, fault, result, raisedBy>>
       ELSE ExitPayload(p, e)
    /\ UNCHANGED <<services, naReads, batteryRead, client, sensorValues>>

\* an awaited required step (start_notify, write_gatt_char, sleep) raised e
StepRaised(p, e) ==
    /\ Raised(p, e)
    /\ ExitPayload(p, e)
    /\ UNCHANGED <<services, naReads, batteryRead, client, sensorValues>>

\* faulty variant: establish_connection called inside the try statement
ConnectRaisedInTry(p, e) ==
    /\ Raised(p, e)
    /\ ExitPayload(p, e)
    /\ UNCHANGED <<services, naReads, batteryRead, client, sensorValues>>

\* establish_connection raised e: the call is outside the try statement
ConnectRaised(p, e) ==
    /\ Raised(p, e)
    /\ Raise(p, e)
    /\ UNCHANGED <<services, si, ci, fault, ops, naReads, batteryRead,
                   raisedBy, client, sensorValues>>

\* ---- the operations ----

async_poll(p) ==
    /\ UNCHANGED advvars
    /\ UNCHANGED restvars
    /\ pc[p] = "idle"
    /\ pc' = [pc EXCEPT ![p] = "establish_connection"]
    /\ Issue(p, "establish_connection", <<>>)
    /\ UNCHANGED <<services, si, ci, fault, hung, result, naReads,
                   batteryRead, raisedBy, cancels, client, faults,
                   cancelledAt, sensorValues>>

establish_connection(p) ==
    /\ UNCHANGED advvars
    /\ UNCHANGED restvars
    /\ pc[p] = "establish_connection" /\ ~hung[p]
    /\ \/ \E svcs \in ServiceLayouts :
            \* every client of the device is handed the same GATT table
            /\ \A q \in DOMAIN pc \ {p} : client[q] # "none" => svcs = services[q]
            /\ services' = [services EXCEPT ![p] = svcs]
            /\ client' = [client EXCEPT ![p] = "connected"]
            /\ EnterChar(p, svcs, FirstCharFrom(svcs, 1))
            /\ UNCHANGED <<fault, result, naReads, batteryRead, raisedBy,
                           faults, sensorValues>>
       \/ \E e \in TransportFaults : ConnectRaised(p, e)
    /\ UNCHANGED <<hung, cancels, cancelledAt>>

read_gatt_char(p) ==
    /\ UNCHANGED advvars
    /\ UNCHANGED restvars
    /\ pc[p] = "read_gatt_char" /\ ~hung[p]
    /\ \/ /\ IF services[p][si[p]][ci[p]] = BatteryUuid
             THEN \E b \in BatteryBytes : batteryRead' = [batteryRead EXCEPT ![p] = Some(b)]
             ELSE UNCHANGED batteryRead
          /\ EnterChar(p, services[p], NextChar(services[p], si[p], ci[p]))
          /\ UNCHANGED <<services, fault, result, naReads, raisedBy, client,
                         faults, sensorValues>>
       \/ \E e \in TransportFaults : ReadRaised(p, e)
    /\ UNCHANGED <<hung, cancels, cancelledAt>>

start_notify(p) ==
    /\ UNCHANGED advvars
    /\ UNCHANGED restvars
    /\ pc[p] = "start_notify" /\ ~hung[p]
    /\ \/ /\ pc' = [pc EXCEPT ![p] = "write_gatt_char"]
          /\ Issue(p, "write_gatt_char", <<21>>)
          /\ UNCHANGED <<services, si, ci, fault, result, naReads,
                         batteryRead, raisedBy, client, faults, sensorValues>>
       \/ \E e \in TransportFaults : StepRaised(p, e)
    /\ UNCHANGED <<hung, cancels, cancelledAt>>

write_gatt_char(p) ==
    /\ UNCHANGED advvars
    /\ UNCHANGED restvars
    /\ pc[p] = "write_gatt_char" /\ ~hung[p]
    /\ \/ /\ pc' = [pc EXCEPT ![p] = "sleep"]
          /\ Issue(p, "sleep", <<5>>)
          /\ UNCHANGED <<services, si, ci, fault, result, naReads,
                         batteryRead, raisedBy, client, faults, sensorValues>>
       \/ \E e \in TransportFaults : StepRaised(p, e)
    /\ UNCHANGED <<hung, cancels, cancelledAt>>

\* asyncio.sleep(5) elapses and _get_payload returns
sleep(p) ==
    /\ UNCHANGED advvars
    /\ UNCHANGED restvars
    /\ pc[p] = "sleep"
    /\ ExitPayload(p, None)
    /\ UNCHANGED <<services, naReads, batteryRead, client, faults, sensorValues>>
    /\ UNCHANGED <<hung, cancels, cancelledAt>>

\* client.disconnect() completes; the pending exception, if any, is re-raised,
\* otherwise async_poll returns self._finish_update()
disconnect(p) ==
    /\ UNCHANGED advvars
    /\ UNCHANGED restvars
    /\ pc[p] = "disconnect"
    /\ pc' = [pc EXCEPT ![p] = "done"]
    /\ result' = [result EXCEPT ![p] =
            IF fault[p] = None
            THEN [kind |-> "returned", exc |-> None, record |-> Some(finish_update)]
            ELSE [kind |-> "raised", exc |-> fault[p], record |-> Nothing]]
    /\ client' = [client EXCEPT ![p] = IF @ = "connected" THEN "disconnected" ELSE @]
    /\ UNCHANGED <<services, si, ci, fault, hung, ops, naReads,
                   batteryRead, raisedBy, cancels, faults, cancelledAt,
                   sensorValues>>

\* the task running async_poll is cancelled: the await it is suspended at
\* raises CancelledError
Cancel(p) ==
    /\ UNCHANGED advvars
    /\ UNCHANGED restvars
    /\ cancels[p] < MaxCancels
    /\ cancels' = [cancels EXCEPT ![p] = @ + 1]
    /\ hung' = [hung EXCEPT ![p] = FALSE]
    /\ cancelledAt' = [cancelledAt EXCEPT ![p] = pc[p]]
    /\ \/ /\ pc[p] = "establish_connection"
          /\ ConnectRaised(p, CancelledError)
       \/ /\ pc[p] = "disconnect"
          /\ Raised(p, CancelledError)
          /\ Raise(p, CancelledError)
          /\ \E c \in {"connected", "disconnected"} :
                client' = [client EXCEPT ![p] = c]
          /\ UNCHANGED <<services, si, ci, fault, ops, naReads,
                         batteryRead, raisedBy, sensorValues>>
       \/ /\ pc[p] = "read_gatt_char"
          /\ ReadRaised(p, CancelledError)
       \/ /\ pc[p] \in {"start_notify", "write_gatt_char", "sleep"}
          /\ StepRaised(p, CancelledError)

\* the awaited transport operation never completes
Hang(p) ==
    /\ UNCHANGED advvars
    /\ UNCHANGED restvars
    /\ pc[p] \in {"establish_connection", "read_gatt_char", "start_notify", "write_gatt_char"}
    /\ ~hung[p]
    /\ hung' = [hung EXCEPT ![p] = TRUE]
    /\ UNCHANGED <<pc, services, si, ci, fault, result, ops, naReads,
                   batteryRead, raisedBy, cancels, client, faults,
                   cancelledAt, sensorValues>>

\* the state after construction, with the async_poll calls P not yet started
InitFor(P) ==
    /\ pc = [p \in P |-> "idle"]
    /\ services = [p \in P |-> <<>>]
    /\ si = [p \in P |-> 0]
    /\ ci = [p \in P |-> 0]
    /\ fault = [p \in P |-> None]
    /\ hung = [p \in P |-> FALSE]
    /\ result = [p \in P |-> NoResult]
    /\ ops = [p \in P |-> <<>>]
    /\ naReads = [p \in P |-> {}]
    /\ batteryRead = [p \in P |-> Nothing]
    /\ raisedBy = [p \in P |-> None]
    /\ cancels = [p \in P |-> 0]
    /\ client = [p \in P |-> "none"]
    /\ faults = [p \in P |-> {}]
    /\ cancelledAt = [p \in P |-> None]
    /\ sensorValues = <<>>
    /\ manufacturer = None
    /\ device_type = None
    /\ name = None
    /\ title = None
    /\ brushing = FALSE
    /\ last_brush = 0
    /\ now = 0
    /\ adv = Nothing
    /\ before = Nothing
    /\ pollArg = Nothing
    /\ pollAt = 0
    /\ pollResult = Nothing
    /\ setup = "pending"
    /\ setupOutcome = Nothing
    /\ registered = FALSE
    /\ value_template = FALSE
    /\ native_value = Nothing
    /\ ha_state = Nothing
    /\ device_value = 0
    /\ lastOp = Nothing

Init == InitFor(Polls)

Next ==
    \E p \in Polls :
        \/ async_poll(p)
        \/ establish_connection(p)
        \/ read_gatt_char(p)
        \/ start_notify(p)
        \/ write_gatt_char(p)
        \/ sleep(p)
        \/ disconnect(p)
        \/ Cancel(p)
        \/ Hang(p)

Spec == Init /\ [][Next]_vars

\* the active side with the scheduling asyncio gives a task: a task that
\* can run is run, an await that completed is resumed; nothing obliges the
\* transport to complete an operation or the host to cancel the task
FairSpec ==
    /\ Spec
    /\ \A p \in Polls :
          /\ WF_vars(async_poll(p))
          /\ WF_vars(establish_connection(p))
          /\ WF_vars(read_gatt_char(p))
          /\ WF_vars(start_notify(p))
          /\ WF_vars(write_gatt_char(p))
          /\ WF_vars(sleep(p))
          /\ WF_vars(disconnect(p))

\* two polls of the same device, a device with a single service, each
\* running to its end; nothing in async_poll makes one wait for the other
ConcurrentInit == InitFor(ConcurrentPolls)

ConcurrentNext ==
    \E p \in ConcurrentPolls :
        \/ async_poll(p)
        \/ establish_connection(p) /\ Len(services'[p]) <= 1
        \/ read_gatt_char(p)
        \/ start_notify(p)
        \/ write_gatt_char(p)
        \/ sleep(p)
        \/ disconnect(p)

ConcurrentSpec == ConcurrentInit /\ [][ConcurrentNext]_vars

\* the passive side: advertisements, the clock and the poll decision
AdvertNext ==
    \/ \E data \in Advertisements : start_update(data)
    \/ \E last_poll \in {Nothing} \cup {Some(d) : d \in 0..MaxLastPoll} : PollNeeded(last_poll)
    \/ Tick

AdvertSpec == Init /\ [][AdvertNext]_vars

\* ---- the REST number (homeassistant/components/rest/number.py) ----

NumberValues == 1..MaxValue
StatusCodes == {200, 399, 400, 404, 500}
RequestFaults == {"TimeoutError", "RequestError", "TypeError", "ValueError", "OtherError"}

\* what a request meets: a response with a status code, or an exception
Responded(status) == [exc |-> None, status |-> status]
Failed(exc) == [exc |-> exc, status |-> 0]
RequestOutcomes == {Responded(c) : c \in StatusCodes} \cup {Failed(e) : e \in RequestFaults}

\* faulty variant: "req.status_code > HTTPStatus.BAD_REQUEST"
SetupRegistersAbove(status) == ~(status > BAD_REQUEST)

\* async_setup_platform adds the entity unless status_code >= BAD_REQUEST
SetupRegisters(status) == ~(status >= BAD_REQUEST)

\* faulty variant: async_set_native_value without "except httpx.RequestError"
SetHandledTimeoutOnly(exc) == exc = "TimeoutError"

\* the except clauses of async_set_native_value and async_update
SetHandled(exc) == exc \in {"TimeoutError", "RequestError"}

\* get_device_state: a response is rendered through the value template, if
\* there is one, into the native value; an exception leaves it alone
get_device_state(o, vt) ==
    native_value' = IF o.exc = None /\ vt THEN Some(device_value) ELSE native_value

async_setup_platform(o, vt) ==
    /\ setup = "pending"
    /\ value_template' = vt
    /\ setupOutcome' = Some(o)
    /\ lastOp' = Some([op |-> "async_setup_platform", value |-> 0, outcome |-> o])
    /\ get_device_state(o, vt)
    /\ registered' = (o.exc = None /\ SetupRegisters(o.status))
    /\ setup' = CASE o.exc = None -> "done"
                  [] o.exc \in {"TypeError", "ValueError"} -> "done"
                  [] o.exc \in {"TimeoutError", "RequestError"} -> "PlatformNotReady"
                  [] OTHER -> o.exc
    /\ UNCHANGED <<ha_state, device_value>>
    /\ UNCHANGED pollvars
    /\ UNCHANGED advvars

async_set_native_value(value, o) ==
    /\ registered
    /\ lastOp' = Some([op |-> "async_set_native_value", value |-> value, outcome |-> o])
    /\ IF o.exc = None \/ SetHandled(o.exc)
       THEN /\ native_value' = Some(value)
            /\ ha_state' = Some(value)
       ELSE UNCHANGED <<native_value, ha_state>>
    \* the device takes the value of a request it answered with success, and
    \* may or may not have taken it when the request broke off
    /\ \/ /\ o.exc = None /\ o.status < BAD_REQUEST
          /\ device_value' = value
       \/ /\ o.exc = None /\ o.status >= BAD_REQUEST
          /\ UNCHANGED device_value
       \/ /\ o.exc # None
          /\ device_value' \in {device_value, value}
    /\ UNCHANGED <<setup, setupOutcome, registered, value_template>>
    /\ UNCHANGED pollvars
    /\ UNCHANGED advvars

async_update(o) ==
    /\ registered
    /\ lastOp' = Some([op |-> "async_update", value |-> 0, outcome |-> o])
    /\ get_device_state(o, value_template)
    /\ UNCHANGED <<setup, setupOutcome, registered, value_template, ha_state,
                   device_value>>
    /\ UNCHANGED pollvars
    /\ UNCHANGED advvars

RestNext ==
    \/ \E o \in RequestOutcomes, vt \in BOOLEAN : async_setup_platform(o, vt)
    \/ \E value \in NumberValues, o \in RequestOutcomes : async_set_native_value(value, o)
    \/ \E o \in RequestOutcomes : async_update(o)

RestSpec == Init /\ [][RestNext]_vars

\* ---- properties of the poll ----

Disconnects(p) == Cardinality({i \in 1..Len(ops[p]) : ops[p][i].op = "disconnect"})
ReadsIssued(p) == {ops[p][i].at : i \in {j \in 1..Len(ops[p]) : ops[p][j].op = "read_gatt_char"}}
OpNames(p) == [i \in 1..Len(ops[p]) |-> ops[p][i].op]
Finished(p) == pc[p] = "done"
Obtained(p) == client[p] # "none"

\* C1: once establish_connection has returned a client, client.disconnect is
\* invoked exactly once before async_poll returns or raises, whatever way the
\* exchange ends (it returns, a required step raises BleakError, anything
\* else is raised inside _get_payload, the task is cancelled); it is never
\* invoked a second time, and never without a client.
C1_DisconnectExactlyOnce ==
    \A p \in Polls :
        /\ Disconnects(p) <= 1
        /\ (Finished(p) /\ Obtained(p)) => Disconnects(p) = 1
        /\ ~Obtained(p) => Disconnects(p) = 0

\* a poll cancelled while a required step of the exchange was awaited has
\* ended, with the disconnect issued once
C1_Witness ==
    \E p \in Polls :
        /\ Finished(p) /\ Obtained(p)
        /\ raisedBy[p] = CancelledError
        /\ result[p].kind = "raised"
        /\ Disconnects(p) = 1

\* C2: when BleakError is the only kind of fault the steps of the exchange
\* raised after the connection was opened (a diagnostic read or a required
\* step), async_poll does not propagate it: it has disconnected, and it
\* returns the record _finish_update builds from the recorded sensor values.
C2_BleakErrorNotPropagated ==
    \A p \in Polls :
        (Finished(p) /\ Obtained(p) /\ faults[p] = {"BleakError"}) =>
            /\ result[p].kind = "returned"
            /\ result[p].record = Some([sensorValues |-> sensorValues])
            /\ Disconnects(p) = 1
            /\ client[p] = "disconnected"

\* a required step raised BleakError and the poll returned a record
C2_Witness ==
    \E p \in Polls :
        /\ Finished(p) /\ raisedBy[p] = "BleakError"
        /\ faults[p] = {"BleakError"}
        /\ result[p].kind = "returned"

C4_ConnectFailurePropagates ==
    \A p \in Polls :
        (Finished(p) /\ ~Obtained(p)) =>
            /\ result[p].kind = "raised"
            /\ faults[p] = {result[p].exc}
            /\ result[p].record = Nothing
            /\ OpNames(p) = <<"establish_connection">>
            /\ raisedBy[p] = None

\* establish_connection raised a transport error
C4_Witness ==
    \E p \in Polls :
        /\ Finished(p) /\ ~Obtained(p)
        /\ result[p].exc = "BleakError"

\* C5: after a poll in which the connection was established and every
\* transport operation succeeded, the battery-level attribute having
\* returned byte b, the returned record holds b under battery_percent.
C5_BatteryRecorded ==
    \A p \in Polls :
        (Finished(p) /\ result[p].kind = "returned" /\ faults[p] = {}
            /\ batteryRead[p] # Nothing) =>
            LET values == result[p].record[1].sensorValues
            IN  /\ BATTERY_PERCENT \in DOMAIN values
                /\ values[BATTERY_PERCENT] = batteryRead[p][1]

\* C9: a failed diagnostic read never aborts the script: once the
\* enumeration is over every characteristic of every service has been read,
\* each once and in order, whatever reads failed; and a poll in which reads
\* failed but no required step did has gone on through start_notify, the
\* command write and the wait.
C9_DiagnosticFailureContinues ==
    \A p \in Polls :
        /\ (Obtained(p) /\ pc[p] # "read_gatt_char") =>
              /\ ReadsIssued(p) = AllChars(services[p])
              /\ naReads[p] \subseteq ReadsIssued(p)
        /\ (Finished(p) /\ Obtained(p) /\ raisedBy[p] = None
                /\ cancelledAt[p] # "disconnect") =>
              /\ SubSeq(OpNames(p), Len(ops[p]) - 3, Len(ops[p])) =
                    <<"start_notify", "write_gatt_char", "sleep", "disconnect">>
              /\ result[p].kind = "returned"

\* the read of the first of several characteristics failed, the later ones
\* were read and the poll returned
C9_Witness ==
    \E p \in Polls :
        /\ Finished(p) /\ result[p].kind = "returned"
        /\ Cardinality(AllChars(services[p])) >= 2
        /\ \E pos \in naReads[p] : NextChar(services[p], pos[1], pos[2]) # <<0, 0>>
        /\ ReadsIssued(p) = AllChars(services[p])

\* C10: every poll terminates: async_poll, once called, eventually returns
\* or raises, even if an awaited transport operation never completes.
C10_PollTerminates ==
    \A p \in Polls : (pc[p] = "establish_connection") ~> (pc[p] = "done")

\* ---- properties of the passive side ----

HasKey(a) == OCLEANX_MANUFACTURER \in DOMAIN a.manufacturer_data
PayloadLen(a) == Len(a.manufacturer_data[OCLEANX_MANUFACTURER])

\* C6: poll_needed returns true whenever last_poll is None; otherwise it
\* returns true exactly when last_poll is strictly greater than the
\* threshold: the brushing interval if _brushing is true or
\* now - _last_brush <= TIMEOUT_RECENTLY_BRUSHING, the not-brushing interval
\* in every other case.
C6_PollNeeded ==
    pollResult # Nothing =>
        /\ pollArg = Nothing => pollResult[1] = TRUE
        /\ (pollArg # Nothing
              /\ (brushing \/ pollAt - last_brush <= TIMEOUT_RECENTLY_BRUSHING)) =>
                (pollResult[1] <=> pollArg[1] > BRUSHING_UPDATE_INTERVAL_SECONDS)
        /\ (pollArg # Nothing
              /\ ~(brushing \/ pollAt - last_brush <= TIMEOUT_RECENTLY_BRUSHING)) =>
                (pollResult[1] <=> pollArg[1] > NOT_BRUSHING_UPDATE_INTERVAL_SECONDS)

\* a call after the grace period, with a last_poll equal to the long
\* interval: not yet due
C6_Witness ==
    /\ pollResult = Some(FALSE)
    /\ pollArg = Some(NOT_BRUSHING_UPDATE_INTERVAL_SECONDS)
    /\ pollAt - last_brush > TIMEOUT_RECENTLY_BRUSHING

C8_NoKeyNoMutation ==
    (adv # Nothing /\ ~HasKey(adv[1])) =>
        /\ DeviceState = before[1]
        /\ before[1].manufacturer = None =>
              (manufacturer = None /\ device_type = None /\ name = None /\ title = None)

\* a fresh parser has received a 4-byte payload under another manufacturer id
C8_Witness ==
    /\ adv # Nothing /\ ~HasKey(adv[1])
    /\ OtherManufacturer \in DOMAIN adv[1].manufacturer_data
    /\ Len(adv[1].manufacturer_data[OtherManufacturer]) = 4
    /\ before[1].manufacturer = None

\* ---- properties of interleaved polls ----

OpenConnections == {p \in DOMAIN pc : client[p] = "connected"}

\* C11: for one device address at most one session holds an open transport
\* connection at any time: of two interleaved async_poll calls the second
\* does not connect or run its exchange until the first has disconnected.
C11_OneOpenConnection == Cardinality(OpenConnections) <= 1

\* ---- the order of the steps ----

RECURSIVE CharsBefore(_, _)
CharsBefore(svcs, s) == IF s <= 1 THEN 0 ELSE Len(svcs[s - 1]) + CharsBefore(svcs, s - 1)

\* the rank of a characteristic in the table, services first
CharRank(svcs, pos) == CharsBefore(svcs, pos[1]) + pos[2]
CharCount(svcs) == CharsBefore(svcs, Len(svcs) + 1)

RequiredSteps == {"start_notify", "write_gatt_char", "sleep"}

\* op may be issued right after prev in a session on table svcs
Follows(svcs, prev, op) ==
    CASE op.op = "read_gatt_char" ->
            \/ prev.op = "establish_connection" /\ CharRank(svcs, op.at) = 1
            \/ prev.op = "read_gatt_char"
                  /\ CharRank(svcs, op.at) = CharRank(svcs, prev.at) + 1
      [] op.op = "start_notify" ->
            \/ prev.op = "establish_connection" /\ CharCount(svcs) = 0
            \/ prev.op = "read_gatt_char"
                  /\ CharRank(svcs, prev.at) = CharCount(svcs)
      [] op.op = "write_gatt_char" -> prev.op = "start_notify"
      [] op.op = "sleep" -> prev.op = "write_gatt_char"
      [] op.op = "disconnect" -> prev.op # "disconnect"
      [] OTHER -> FALSE

StepsInOrder(p) ==
    /\ \A i \in 2..Len(ops[p]) : Follows(services[p], ops[p][i - 1], ops[p][i])
    /\ Len(ops[p]) > 0 => ops[p][1].op = "establish_connection"
    /\ \A i \in 1..Len(ops[p]) - 1 : ops[p][i].op # "disconnect"
    /\ pc[p] \notin {"idle", "done"} => ops[p][Len(ops[p])].op = pc[p]

\* C12: within one session the steps are issued strictly in order: the
\* diagnostic reads in table order, then start_notify, then the command
\* write, then the wait, the awaited step always being the last one issued;
\* and when a required step raises, the one operation issued after it is the
\* disconnect.
C12_StepsInOrder ==
    [][\A p \in Polls :
          /\ StepsInOrder(p)'
          /\ (pc[p] \in RequiredSteps /\ faults'[p] # faults[p]) =>
                /\ pc'[p] = "disconnect"
                /\ ops'[p] = Append(ops[p], [op |-> "disconnect", at |-> <<>>])]_vars

\* after two reads and the subscription, the command write raised
\* BleakError: the wait was never started and the disconnect came next
C12_Witness ==
    \E p \in Polls :
        /\ Finished(p) /\ raisedBy[p] = "BleakError"
        /\ OpNames(p) = <<"establish_connection", "read_gatt_char", "read_gatt_char",
                          "start_notify", "write_gatt_char", "disconnect">>

\* ---- the liveness state ----

\* C13: _last_brush holds a value if and only if _brushing has been true at
\* least once; for a device never observed active (no operation sets
\* _brushing, so it is false in every state) the timestamp is absent and is
\* not used as a time in the poll decision: a decision on a recorded
\* last_poll compares it with the not-brushing interval.
C13_TimestampUnusedUntilActive ==
    (~brushing /\ pollResult # Nothing /\ pollArg # Nothing) =>
        (pollResult[1] <=> pollArg[1] > NOT_BRUSHING_UPDATE_INTERVAL_SECONDS)

\* ---- properties of the REST number ----

SetCall == lastOp # Nothing /\ lastOp[1].op = "async_set_native_value"

\* C14: async_set_native_value(v) sets the native value to v and writes the
\* entity state whether or not the request succeeded: after a timeout, a
\* request error or a response of any status, the error statuses included,
\* the native value and the written state are v.
C14_ValueSetRegardless ==
    (SetCall /\ lastOp[1].outcome.exc \in {None, "TimeoutError", "RequestError"}) =>
        /\ native_value = Some(lastOp[1].value)
        /\ ha_state = Some(lastOp[1].value)

\* the device answered 500 and kept its value; the entity reports the new one
C14_Witness ==
    /\ SetCall
    /\ lastOp[1].outcome = Responded(500)
    /\ device_value # lastOp[1].value
    /\ native_value = Some(lastOp[1].value)

\* C15: the setup registers the entity exactly when the state request
\* completes with a status below 400; a status of 400 or above, or a
\* TypeError/ValueError, ends the setup without exception and without the
\* entity; a timeout or request error raises PlatformNotReady, without the
\* entity.
C15_SetupRegistration ==
    setup # "pending" =>
        LET o == setupOutcome[1]
        IN  /\ registered <=> (o.exc = None /\ o.status < 400)
            /\ ((o.exc = None /\ o.status >= 400) \/ o.exc \in {"TypeError", "ValueError"}) =>
                  (setup = "done" /\ ~registered)
            /\ o.exc \in {"TimeoutError", "RequestError"} =>
                  (setup = "PlatformNotReady" /\ ~registered)
            /\ (o.exc = None /\ o.status < 400) => setup = "done"

\* the state request was answered with exactly 400
C15_Witness ==
    /\ setup = "done"
    /\ setupOutcome = Some(Responded(400))
    /\ ~registered

====
